---- MODULE Spec2Model ----
(***************************************************************************)
(* dahua-twilight: the SNTP-backed clock (twilight/clock), the discovery   *)
(* inventory (twilight/discover.py) and the two loops of twilight/main.py  *)
(* that share them: receive_loop (thread "R") and the __main__ consumer    *)
(* loop (thread "M").  Every method is modelled statement by statement:    *)
(* pc[t] is the statement a thread is about to execute (the label's number *)
(* is the source line), stack[t] its return addresses, ret[t] the value    *)
(* the last call handed back.                                              *)
(*                                                                         *)
(* Two specifications:                                                     *)
(*   Spec       the program: R and M interleaved at the statements that    *)
(*              touch shared data; the local clock advances while every    *)
(*              thread waits (recvfrom, a lock, the exchange, time.sleep). *)
(*   SpecClock  the Clock class on its own: one caller ("D") invoking its  *)
(*              methods one after the other on every clock state; the      *)
(*              local clock advances only while the caller is idle or      *)
(*              blocked (in the SNTP exchange or in time.sleep).           *)
(*   SpecInventory  the Inventory class on its own: register and           *)
(*              do_expirations applied to every table, with every          *)
(*              timestamp and max_age up to MaxStamp.                      *)
(*   SpecSntp   sntp.server_offset on its own: one exchange for every      *)
(*              request timestamp, response and time of arrival up to      *)
(*              MaxTs.                                                     *)
(* Time is counted in whole seconds of the local clock.                    *)
(***************************************************************************)
EXTENDS Integers, Sequences, FiniteSets, TLC

(* ----------------------------- bounds -------------------------------- *)
\* last local-clock reading the model explores
MaxTime == 2
\* largest timestamp and largest max_age SpecInventory draws
MaxStamp == 3
\* largest NTP timestamp SpecSntp draws, in units of 1/MAX32 second
MaxTs == 6

(* ------------------------ program constants -------------------------- *)
\* Clock.OFFSET_BUFFER_SIZE (configured; the default is 10)
OFFSET_BUFFER_SIZE == 2
\* Clock.MAX_SYNC_AGE in seconds (configured; the default is 64): here a
\* refresh is due as soon as the local clock shows a later second
MAX_SYNC_AGE == 0
\* Clock.SERVER_TIMEOUT in seconds (configured; the default is 2): like the
\* default it does not exceed MAX_SYNC_AGE
SERVER_TIMEOUT == 0
\* sntp.NTP_EPOCH on the model's time axis: older than every local reading
\* by more than MAX_SYNC_AGE (1900-01-01 against a clock that reads >= 1970)
NTP_EPOCH == -1
\* clock.OWN_EPOCH on the model's time axis
OWN_EPOCH == 0
\* sntp.MAX32, the span now() adds while its result precedes OWN_EPOCH
MAX32 == 16
\* discover.max_age in seconds (configured; the default is 128)
MAX_AGE == 1
\* clock.sleep(1) in the consumer loop
SLEEP_DELAY == 1
\* Clock.DEFAULT_SLEEP_RESOLUTION, in seconds (configured; the default is 0.25)
SLEEP_RESOLUTION == 1

\* Python's None
None == "None"
\* the exception clock.now() raises, as the value a call hands back
Unsync == "UnsynchronizedException"
\* offsets a successful exchange may compute (seconds); 0 is a legal offset,
\* and -40 puts the corrected time more than two MAX32 spans before OWN_EPOCH
Offsets == {0, 6, -40}
\* a slot of the offset buffer: None, or a float
Absent == [present |-> FALSE, v |-> 0]
Some(x) == [present |-> TRUE, v |-> x]
Samples == {Some(x) : x \in Offsets} \cup {Absent}
\* what an exchange meets: no response before the timeout, or a response
\* with its leap indicator, mode, stratum and transmit timestamp, and the
\* offset its timestamps work out to
Timeout == [kind |-> "timeout", leap |-> 0, mode |-> 0, stratum |-> 0,
            tx |-> 0, off |-> 0]
Reply(l, m, s, tx, off) == [kind |-> "reply", leap |-> l, mode |-> m,
                            stratum |-> s, tx |-> tx, off |-> off]
\* LEAP.NONE, MODE.SERVER, stratum 1, a transmit timestamp
GoodReply(off) == Reply(0, 4, 1, 1, off)
\* a good response, one at the last legal stratum, and one response for
\* each way of failing the validation
Replies(off) ==
    {GoodReply(off), Reply(0, 4, 15, 1, off), Reply(3, 4, 1, 1, off),
     Reply(0, 3, 1, 1, off), Reply(0, 4, 0, 1, off), Reply(0, 4, 16, 1, off),
     Reply(0, 4, 1, 0, off)}
Responses == {Timeout} \cup UNION {Replies(off) : off \in Offsets}
\* the responses the exchanges of the running program are taken from
ProgramResponses == {Timeout, GoodReply(6)}
\* what a call hands back: nothing, a bool, an instant, or the exception
RetNone == [tag |-> "none", b |-> FALSE, n |-> 0]
RetBool(x) == [tag |-> "bool", b |-> x, n |-> 0]
RetTime(x) == [tag |-> "time", b |-> FALSE, n |-> x]
RetUnsync == [tag |-> "raise", b |-> FALSE, n |-> 0]
\* the ValueError of time.sleep for a negative length
RetValueError == [tag |-> "ValueError", b |-> FALSE, n |-> 0]
\* receive_loop's packet = None
NoPacket == [host |-> None, kind |-> "none"]
\* hosts that broadcast presence datagrams
Hosts == {"h1", "h2"}
\* bytes the fields of NVRPacket._fields and of CameraPacket._fields take
NVR_SIZE == 32
CAMERA_SIZE == 148
\* a payload: its first byte, its length, and whether the bytes that
\* Packet.__init__ decodes as text are valid UTF-8
Payload(magic, size, utf8) == [magic |-> magic, size |-> size, utf8 |-> utf8]
\* the datagrams the socket may deliver: (sender, payload); complete
\* packets of both kinds, an unknown first byte, an NVR payload of one
\* byte, and a camera payload with a byte that is not UTF-8
Datagrams == {<<"h1", Payload(163, 160, TRUE)>>,
              <<"h2", Payload(163, 160, TRUE)>>,
              <<"h2", Payload(179, 160, TRUE)>>,
              <<"h2", Payload(0, 160, TRUE)>>,
              <<"h2", Payload(163, 1, TRUE)>>,
              <<"h2", Payload(179, 160, FALSE)>>}
Threads == {"R", "M", "D"}

VARIABLES
    now,            \* sntp.local_now(): the local clock
    server,         \* Clock.server
    last_refresh,   \* Clock.last_refresh
    offset_buffer,  \* Clock.offset_buffer, newest first
    table,          \* Inventory.table: host -> (timestamp, packet kind)
    state,          \* main.state
    tlock,          \* main.tlock: "free" or the thread that holds it
    pc,             \* per thread: the statement about to run
    stack,          \* per thread: return addresses
    ret,            \* per thread: value returned (or raised) by the last call
    loc,            \* per thread: locals (lnow, offset of sync; server
                    \*   argument; soon, delay, wake of sleep)
    packet,         \* receive_loop's packet: None or [host, kind]
    crashed,        \* "none", or the exception that ended the process
    lost_resets,    \* history: inventory.reset() calls since state last
                    \*   became CLOCK_LOST
    call            \* history of SpecClock's caller: the call in progress
                    \*   (method, argument, the clock when it was made, the
                    \*   exchanges it made, the last response they met
                    \*   and the offset it gave) and
                    \*   streak: the failed exchanges in a row since the
                    \*   buffer last held no None (-1: other pushes since)

clockvars == <<server, last_refresh, offset_buffer>>
vars == <<now, server, last_refresh, offset_buffer, table, state, tlock,
          pc, stack, ret, loc, packet, crashed, lost_resets, call>>

(* ------------------------- Clock: helpers ---------------------------- *)
\* [None] * self.OFFSET_BUFFER_SIZE
EmptyBuffer == [i \in 1..OFFSET_BUFFER_SIZE |-> Absent]

\* if self.server is None: return
ServerUnset(srv) == srv = None

\* a freshness test that is strict: an age of exactly MAX_SYNC_AGE is stale
FreshStrict(t, lr) == t - lr < MAX_SYNC_AGE

\* (lnow - self.last_refresh).total_seconds() <= self.MAX_SYNC_AGE
Fresh(t, lr) == t - lr <= MAX_SYNC_AGE

\* self.offset_buffer.pop(): drops the last (oldest) element
Pop(buf) == SubSeq(buf, 1, Len(buf) - 1)

\* an insert at the wrong end: the new offset becomes the oldest
InsertLast(buf, x) == buf \o <<x>>

\* self.offset_buffer.insert(0, offset)
Insert0(buf, x) == <<x>> \o buf

\* Python truthiness of a buffer slot: None and 0.0 are both falsy
Truthy(x) == x.present /\ x.v # 0

\* any(self.offset_buffer)
AnyTruthy(buf) == \E i \in 1..Len(buf) : Truthy(buf[i])

\* (o for o in self.offset_buffer if o is not None)
PresentIdx(buf) == {i \in 1..Len(buf) : buf[i].present}

RECURSIVE SumOver(_, _)
SumOver(buf, idx) ==
    IF idx = {} THEN 0
    ELSE LET i == CHOOSE j \in idx : TRUE
         IN  buf[i].v + SumOver(buf, idx \ {i})

\* statistics.mean of the present samples (exact for the model's Offsets)
Mean(buf) == SumOver(buf, PresentIdx(buf)) \div Cardinality(PresentIdx(buf))

\* a single span added where the loop would go on
WrapOnce(dt) == IF dt < OWN_EPOCH THEN dt + MAX32 ELSE dt

\* while dt < OWN_EPOCH: dt += timedelta(seconds=sntp.MAX32)
RECURSIVE WrapEpoch(_)
WrapEpoch(dt) == IF dt < OWN_EPOCH THEN WrapEpoch(dt + MAX32) ELSE dt

\* the instant now() returns for local reading l and buffer buf
NowValue(l, buf) == WrapEpoch(l + Mean(buf))

(* ----------------------- thread bookkeeping -------------------------- *)
NoLoc == [lnow |-> 0, offset |-> Absent, arg |-> None,
          soon |-> 0, delay |-> 0, wake |-> 0]

Alive == crashed = "none"

\* the statements at which a thread can be overtaken by the other one: the
\* calls that release the interpreter lock (sock.recvfrom, the SNTP
\* exchange awaited at sync63, time.sleep, Lock.acquire, the HTTP requests
\* of the camera loop), the consumer's retry loop, the gap between pop()
\* and insert() in sync, and the gap between the test of line 90 and the
\* now() of line 94 in sleep
YieldLabels == {"off", "d_idle", "d_done", "recv41", "rcv58", "rcv69",
                "main105", "main138", "main140", "sleep91", "sleep92",
                "sleep98", "sync63", "sync64"}

\* t is scheduled: the process lives and no other thread is in the middle
\* of a run of statements
Runs(t) == Alive /\ \A u \in Threads \ {t} : pc[u] \in YieldLabels

\* t moves on to statement l
Goto(t, l) == pc' = [pc EXCEPT ![t] = l]

\* t calls the method starting at l, to come back at back
CallTo(t, l, back) ==
    /\ pc' = [pc EXCEPT ![t] = l]
    /\ stack' = [stack EXCEPT ![t] = <<back>> \o @]

\* t returns v (an exception travels as the value RetUnsync)
Return(t, v) ==
    /\ pc' = [pc EXCEPT ![t] = Head(stack[t])]
    /\ stack' = [stack EXCEPT ![t] = Tail(@)]
    /\ ret' = [ret EXCEPT ![t] = v]

\* the value handed back has been used
Used(t) == ret' = [ret EXCEPT ![t] = RetNone]

\* an exception nobody catches ends the process: threading.excepthook is
\* thread_crash_hook, which calls os._exit(1); an exception in the main
\* thread ends the interpreter, the receive thread being a daemon
Crash(e) ==
    /\ crashed' = e
    /\ UNCHANGED <<now, clockvars, table, state, tlock, pc, stack, ret, loc,
                   packet, lost_resets, call>>

progvars == <<table, state, tlock, packet, lost_resets>>

(* --------------------------- Clock.sync ------------------------------ *)
\* line 49: if self.server is None: return
Sync49(t) ==
    /\ Runs(t) /\ pc[t] = "sync49"
    /\ IF ServerUnset(server)
       THEN Return(t, RetNone)
       ELSE Goto(t, "sync52") /\ UNCHANGED <<stack, ret>>
    /\ UNCHANGED <<now, clockvars, loc, progvars, crashed, call>>

\* lines 52-54: lnow = sntp.local_now(); return if the last refresh is fresh
Sync52(t) ==
    /\ Runs(t) /\ pc[t] = "sync52"
    /\ IF Fresh(now, last_refresh)
       THEN Return(t, RetNone) /\ UNCHANGED loc
       ELSE /\ Goto(t, "sync55")
            /\ loc' = [loc EXCEPT ![t].lnow = now]
            /\ UNCHANGED <<stack, ret>>
    /\ UNCHANGED <<now, clockvars, progvars, crashed, call>>

\* lines 55-59: self.last_refresh = lnow, then the request is sent; the
\* thread then waits at sync63 for the answer or the timeout
Sync55(t) ==
    /\ Runs(t) /\ pc[t] = "sync55"
    /\ last_refresh' = loc[t].lnow
    /\ Goto(t, "sync63")
    /\ call' = IF t = "D" THEN [call EXCEPT !.attempts = @ + 1] ELSE call
    /\ UNCHANGED <<now, server, offset_buffer, stack, ret, loc, progvars,
                   crashed>>

\* a validation that lets every stratum pass
ResponseOkAnyStratum(r) == r.leap # 3 /\ r.mode = 4 /\ r.tx # 0

\* sntp.server_offset, lines 72-75: ok
ResponseOk(r) ==
    /\ r.leap # 3
    /\ r.mode = 4
    /\ 0 < r.stratum /\ r.stratum < 16
    /\ r.tx # 0

\* sntp.server_offset: recvfrom raises on a timeout, a response that is
\* not ok gives None, an ok one the tuple (offset, delay)
ServerOffset(r) ==
    IF r.kind = "timeout" THEN [tag |-> "raise", off |-> 0]
    ELSE IF ~ResponseOk(r) THEN [tag |-> "none", off |-> 0]
    ELSE [tag |-> "tuple", off |-> r.off]

\* lines 57-61: offset, delay = ... unpacks a tuple; the timeout and the
\* TypeError of unpacking None are caught by except Exception: offset = None
SyncOffset(res) == IF res.tag = "tuple" THEN Some(res.off) ELSE Absent

\* the responses thread t's exchanges may meet
ExchangeResponses(t) == IF t = "D" THEN Responses ELSE ProgramResponses

\* lines 57-63: the exchange ends with offset r; self.offset_buffer.pop()
Sync63(t) ==
    /\ Runs(t) /\ pc[t] = "sync63"
    /\ IF offset_buffer = <<>>
       THEN Crash("IndexError")
       ELSE /\ \E resp \in ExchangeResponses(t) :
                 LET r == SyncOffset(ServerOffset(resp)) IN
                 /\ loc' = [loc EXCEPT ![t].offset = r, ![t].lnow = 0]
                 /\ call' = IF t = "D"
                            THEN [call EXCEPT !.sample = r, !.resp = resp]
                            ELSE call
            /\ offset_buffer' = Pop(offset_buffer)
            /\ Goto(t, "sync64")
            /\ UNCHANGED <<now, server, last_refresh, stack, ret, progvars,
                           crashed>>

\* the caller's streak after x has been pushed, giving buf
Streak(old, x, buf) ==
    IF \A i \in 1..Len(buf) : buf[i].present THEN 0
    ELSE IF ~x.present /\ old >= 0 /\ old < OFFSET_BUFFER_SIZE THEN old + 1
    ELSE IF ~x.present /\ old >= 0 THEN old
    ELSE -1

\* line 64: self.offset_buffer.insert(0, offset)
Sync64(t) ==
    /\ Runs(t) /\ pc[t] = "sync64"
    /\ offset_buffer' = Insert0(offset_buffer, loc[t].offset)
    /\ loc' = [loc EXCEPT ![t].offset = Absent]
    /\ Return(t, RetNone)
    /\ call' = IF t = "D"
               THEN [call EXCEPT !.streak =
                        Streak(@, loc[t].offset, offset_buffer')]
               ELSE call
    /\ UNCHANGED <<now, server, last_refresh, progvars, crashed>>

(* -------------------------- Clock.is_valid --------------------------- *)
\* line 67: self.sync()
Valid67(t) ==
    /\ Runs(t) /\ pc[t] = "valid67"
    /\ CallTo(t, "sync49", "valid69")
    /\ UNCHANGED <<now, clockvars, ret, loc, progvars, crashed, call>>

\* line 69: return any(self.offset_buffer)
Valid69(t) ==
    /\ Runs(t) /\ pc[t] = "valid69"
    /\ Return(t, RetBool(AnyTruthy(offset_buffer)))
    /\ UNCHANGED <<now, clockvars, loc, progvars, crashed, call>>

(* ---------------------- Clock.reset / use_ntp_server ------------------ *)
\* reset(server): the three assignments of lines 32-35
ResetServer(srv) == srv
ResetRefresh == NTP_EPOCH
ResetBuffer == EmptyBuffer

\* line 38: if self.server != server
SameServer(cur, srv) == cur = srv

\* lines 38-40: if self.server != server: self.reset(server=server); sync()
Bind38(t) ==
    /\ Runs(t) /\ pc[t] = "bind38"
    /\ IF ~SameServer(server, loc[t].arg)
       THEN /\ server' = ResetServer(loc[t].arg)
            /\ last_refresh' = ResetRefresh
            /\ offset_buffer' = ResetBuffer
            /\ CallTo(t, "sync49", "bind42")
            /\ call' = IF t = "D" THEN [call EXCEPT !.streak = -1] ELSE call
            /\ UNCHANGED ret
       ELSE /\ Return(t, RetBool(TRUE))
            /\ UNCHANGED <<clockvars, call>>
    /\ loc' = [loc EXCEPT ![t].arg = None]
    /\ UNCHANGED <<now, progvars, crashed>>

\* line 42: if not self.is_valid()
Bind42(t) ==
    /\ Runs(t) /\ pc[t] = "bind42"
    /\ CallTo(t, "valid67", "bind43")
    /\ UNCHANGED <<now, clockvars, ret, loc, progvars, crashed, call>>

\* lines 43-46: self.reset(); return False  /  return True
Bind43(t) ==
    /\ Runs(t) /\ pc[t] = "bind43"
    /\ IF ret[t] = RetBool(FALSE)
       THEN /\ server' = ResetServer(None)
            /\ last_refresh' = ResetRefresh
            /\ offset_buffer' = ResetBuffer
            /\ Return(t, RetBool(FALSE))
            /\ call' = IF t = "D" THEN [call EXCEPT !.streak = -1] ELSE call
       ELSE /\ Return(t, RetBool(TRUE))
            /\ UNCHANGED <<clockvars, call>>
    /\ UNCHANGED <<now, loc, progvars, crashed>>

(* ----------------------------- Clock.now ----------------------------- *)
\* line 72: self.sync()
Now72(t) ==
    /\ Runs(t) /\ pc[t] = "now72"
    /\ CallTo(t, "sync49", "now74")
    /\ UNCHANGED <<now, clockvars, ret, loc, progvars, crashed, call>>

\* line 74: if not self.is_valid()
Now74(t) ==
    /\ Runs(t) /\ pc[t] = "now74"
    /\ CallTo(t, "valid67", "now75")
    /\ UNCHANGED <<now, clockvars, ret, loc, progvars, crashed, call>>

\* line 75: raise UnsynchronizedException
Now75(t) ==
    /\ Runs(t) /\ pc[t] = "now75"
    /\ IF ret[t] = RetBool(FALSE)
       THEN Return(t, RetUnsync)
       ELSE Goto(t, "now77") /\ Used(t) /\ UNCHANGED stack
    /\ UNCHANGED <<now, clockvars, loc, progvars, crashed, call>>

\* lines 77-84: the mean of the present samples (statistics.mean raises
\* StatisticsError on no data), added to local_now() and wrapped
Now77(t) ==
    /\ Runs(t) /\ pc[t] = "now77"
    /\ IF PresentIdx(offset_buffer) = {}
       THEN Crash("StatisticsError")
       ELSE /\ Return(t, RetTime(NowValue(now, offset_buffer)))
            /\ UNCHANGED <<now, clockvars, loc, progvars, crashed, call>>

(* ---------------------------- Clock.sleep ---------------------------- *)
\* the locals of sleep() are gone once it is left
SleepOver(t) == loc' = [loc EXCEPT ![t].wake = 0, ![t].delay = 0, ![t].soon = 0]

\* the history of a sleep() of the single caller: which way the call went,
\* how many times line 97 read now(), how many time.sleep(resolution) are
\* over, how many time.sleep(delay) began and with what length
NotePath(t, p) ==
    call' = IF t = "D" THEN [call EXCEPT !.path = p] ELSE call
NotePlain(t, p, len) ==
    call' = IF t = "D"
            THEN [call EXCEPT !.path = p, !.nplain = @ + 1, !.plain = len]
            ELSE call
NotePoll(t) ==
    call' = IF t = "D" THEN [call EXCEPT !.polls = @ + 1] ELSE call
NoteWait(t) ==
    call' = IF t = "D" THEN [call EXCEPT !.waits = @ + 1] ELSE call

\* line 90: if not self.is_valid()
Sleep90(t) ==
    /\ Runs(t) /\ pc[t] = "sleep90"
    /\ CallTo(t, "valid67", "sleep91")
    /\ UNCHANGED <<now, clockvars, ret, loc, progvars, crashed, call>>

\* lines 91-94: time.sleep(delay); return  /  self.now() of line 94
Sleep91(t) ==
    /\ Runs(t) /\ pc[t] = "sleep91"
    /\ IF ret[t] = RetBool(FALSE)
       THEN /\ Goto(t, "sleep92")
            /\ loc' = [loc EXCEPT ![t].wake = now + loc[t].delay]
            /\ NotePlain(t, "plain", loc[t].delay)
            /\ UNCHANGED stack
       ELSE /\ CallTo(t, "now72", "sleep94")
            /\ NotePath(t, "poll")
            /\ UNCHANGED loc
    /\ Used(t)
    /\ UNCHANGED <<now, clockvars, progvars, crashed>>

\* lines 92 and 101: time.sleep(delay) is over; sleep() returns
Sleep92(t) ==
    /\ Runs(t) /\ pc[t] = "sleep92"
    /\ now >= loc[t].wake
    /\ SleepOver(t)
    /\ Return(t, RetNone)
    /\ UNCHANGED <<now, clockvars, progvars, crashed, call>>

\* line 94: soon = self.now() + timedelta(seconds=delay); an exception of
\* now() is outside the try block and leaves sleep()
Sleep94(t) ==
    /\ Runs(t) /\ pc[t] = "sleep94"
    /\ IF ret[t] = RetUnsync
       THEN /\ Return(t, RetUnsync)
            /\ SleepOver(t)
       ELSE /\ loc' = [loc EXCEPT ![t].soon = ret[t].n + loc[t].delay]
            /\ CallTo(t, "now72", "sleep97")
            /\ Used(t)
    /\ UNCHANGED <<now, clockvars, progvars, crashed, call>>

\* line 97: while soon > self.now(), with the except clause of line 100;
\* time.sleep(delay) of line 101 raises ValueError when delay is negative
Sleep97(t) ==
    /\ Runs(t) /\ pc[t] = "sleep97"
    /\ IF ret[t] = RetUnsync
       THEN /\ NotePlain(t, "degraded", loc[t].delay)
            /\ IF loc[t].delay < 0
               THEN /\ SleepOver(t)
                    /\ Return(t, RetValueError)
               ELSE /\ Goto(t, "sleep92")
                    /\ loc' = [loc EXCEPT ![t].wake = now + loc[t].delay]
                    /\ Used(t)
                    /\ UNCHANGED stack
       ELSE /\ NotePoll(t)
            /\ IF loc[t].soon > ret[t].n
               THEN /\ Goto(t, "sleep98")
                    /\ loc' = [loc EXCEPT ![t].wake = now + SLEEP_RESOLUTION]
                    /\ Used(t)
                    /\ UNCHANGED stack
               ELSE /\ SleepOver(t)
                    /\ Return(t, RetNone)
    /\ UNCHANGED <<now, clockvars, progvars, crashed>>

\* lines 98-99: time.sleep(resolution) is over; delay -= resolution
Sleep98(t) ==
    /\ Runs(t) /\ pc[t] = "sleep98"
    /\ now >= loc[t].wake
    /\ loc' = [loc EXCEPT ![t].delay = @ - SLEEP_RESOLUTION, ![t].wake = 0]
    /\ CallTo(t, "now72", "sleep97")
    /\ NoteWait(t)
    /\ UNCHANGED <<now, clockvars, ret, progvars, crashed>>

\* one statement of a Clock method, run by thread t
ClockStep(t) ==
    \/ Sync49(t) \/ Sync52(t) \/ Sync55(t) \/ Sync63(t) \/ Sync64(t)
    \/ Valid67(t) \/ Valid69(t)
    \/ Bind38(t) \/ Bind42(t) \/ Bind43(t)
    \/ Now72(t) \/ Now74(t) \/ Now75(t) \/ Now77(t)
    \/ Sleep90(t) \/ Sleep91(t) \/ Sleep92(t) \/ Sleep94(t) \/ Sleep97(t)
    \/ Sleep98(t)

(* ----------------------------- Inventory ----------------------------- *)
\* a host without an entry in Inventory.table
NoEntry == [ts |-> -1, kind |-> "absent"]
\* Inventory.reset: self.table = {}
EmptyTable == [h \in Hosts |-> NoEntry]

\* a register that keeps an entry seen later than the new one
RegisterIfNewer(tbl, pkt, ts) ==
    IF tbl[pkt.host].ts > ts THEN tbl
    ELSE [tbl EXCEPT ![pkt.host] = [ts |-> ts, kind |-> pkt.kind]]

\* Inventory.register: self.table[packet.host] = (clock.now(), packet)
Register(tbl, pkt, ts) == [tbl EXCEPT ![pkt.host] = [ts |-> ts, kind |-> pkt.kind]]

\* a filter that drops an entry whose age is exactly max_age
KeepsYounger(entry, max_age, ts) == ts - entry.ts < max_age

\* the filter of Inventory.do_expirations
Keeps(entry, max_age, ts) == ts - entry.ts <= max_age

\* Inventory.do_expirations, given the clock.now() it read
DoExpirations(tbl, max_age, ts) ==
    [h \in Hosts |-> IF tbl[h] # NoEntry /\ Keeps(tbl[h], max_age, ts)
                     THEN tbl[h] ELSE NoEntry]

\* struct.calcsize summed over the _fields of the class
SchemaSize(kind) == IF kind = "nvr" THEN NVR_SIZE ELSE CAMERA_SIZE

\* Packet.__init__, lines 55-70: struct.unpack of a read that came back
\* short raises struct.error; .decode() of the trailer (and of a camera's
\* hostname, mac and model) raises UnicodeDecodeError on other than UTF-8
PacketInit(kind, payload) ==
    IF payload.size < SchemaSize(kind) THEN "struct.error"
    ELSE IF /\ ~payload.utf8
            /\ (kind = "camera" \/ payload.size > SchemaSize(kind))
         THEN "UnicodeDecodeError"
    ELSE kind

\* Packet.discern: the class the first payload byte selects, constructed
Discern(payload) ==
    IF payload.magic = 163 THEN PacketInit("nvr", payload)
    ELSE IF payload.magic = 179 THEN PacketInit("camera", payload)
    ELSE "Exception"

(* --------------------------- receive_loop ---------------------------- *)
rcvframe == <<now, clockvars, crashed, call>>

\* the loop starts over (line 33): packet is assigned anew before it is read
NextDatagram ==
    /\ Goto("R", "recv41")
    /\ packet' = NoPacket

\* lines 34-44: the debug read of offset_buffer[0], then sock.recvfrom and
\* Packet.discern; only TimeoutError is caught
Recv41 ==
    /\ Runs("R") /\ pc["R"] = "recv41"
    /\ IF offset_buffer = <<>>
       THEN Crash("IndexError")
       ELSE \/ /\ packet' = NoPacket
               /\ Goto("R", "match46")
               /\ UNCHANGED <<rcvframe, table, state, tlock, stack, ret, loc,
                              lost_resets>>
            \/ \E d \in Datagrams :
                  IF Discern(d[2]) \notin {"nvr", "camera"}
                  THEN Crash(Discern(d[2]))
                  ELSE /\ packet' = [host |-> d[1], kind |-> Discern(d[2])]
                       /\ Goto("R", "match46")
                       /\ UNCHANGED <<rcvframe, table, state, tlock, stack,
                                      ret, loc, lost_resets>>

\* what case STATE.UNINITIALIZED makes of the value use_ntp_server returned
\* (lines 49-50): it is not looked at
AfterBind(result) == "RUNNING"

\* a match whose UNINITIALIZED case binds to the sender of any packet
Match46AnyPacket ==
    /\ Runs("R") /\ pc["R"] = "match46"
    /\ CASE state = "UNINITIALIZED" ->
              IF packet # NoPacket
              THEN /\ loc' = [loc EXCEPT !["R"].arg = packet.host]
                   /\ CallTo("R", "bind38", "rcv50")
                   /\ UNCHANGED packet
              ELSE /\ NextDatagram
                   /\ UNCHANGED <<loc, stack>>
         [] state = "RUNNING" ->
              /\ CallTo("R", "valid67", "rcv55")
              /\ UNCHANGED <<loc, packet>>
         [] state = "CLOCK_LOST" ->
              /\ Goto("R", "rcv69")
              /\ UNCHANGED <<loc, stack, packet>>
    /\ UNCHANGED <<rcvframe, table, state, tlock, ret, lost_resets>>

\* lines 46-49, 54, 69: match state
Match46 ==
    /\ Runs("R") /\ pc["R"] = "match46"
    /\ CASE state = "UNINITIALIZED" ->
              IF packet # NoPacket /\ packet.kind = "nvr"
              THEN /\ loc' = [loc EXCEPT !["R"].arg = packet.host]
                   /\ CallTo("R", "bind38", "rcv50")
                   /\ UNCHANGED packet
              ELSE /\ NextDatagram
                   /\ UNCHANGED <<loc, stack>>
         [] state = "RUNNING" ->
              /\ CallTo("R", "valid67", "rcv55")
              /\ UNCHANGED <<loc, packet>>
         [] state = "CLOCK_LOST" ->
              /\ Goto("R", "rcv69")
              /\ UNCHANGED <<loc, stack, packet>>
    /\ UNCHANGED <<rcvframe, table, state, tlock, ret, lost_resets>>

\* line 50: state = STATE.RUNNING
Rcv50 ==
    /\ Runs("R") /\ pc["R"] = "rcv50"
    /\ state' = AfterBind(ret["R"])
    /\ NextDatagram
    /\ Used("R")
    /\ UNCHANGED <<rcvframe, table, tlock, stack, loc, lost_resets>>

\* a RUNNING branch that also empties the inventory when the clock is lost
Rcv55Resetting ==
    /\ Runs("R") /\ pc["R"] = "rcv55"
    /\ IF ret["R"] = RetBool(FALSE)
       THEN /\ state' = "CLOCK_LOST"
            /\ lost_resets' = 0
            /\ table' = EmptyTable
            /\ NextDatagram
       ELSE /\ Goto("R", "rcv58")
            /\ UNCHANGED <<state, lost_resets, packet, table>>
    /\ Used("R")
    /\ UNCHANGED <<rcvframe, tlock, stack, loc>>

\* lines 54-56: if not clock.is_valid(): state = CLOCK_LOST; continue
Rcv55 ==
    /\ Runs("R") /\ pc["R"] = "rcv55"
    /\ IF ret["R"] = RetBool(FALSE)
       THEN /\ state' = "CLOCK_LOST"
            /\ lost_resets' = 0
            /\ NextDatagram
       ELSE /\ Goto("R", "rcv58")
            /\ UNCHANGED <<state, lost_resets, packet>>
    /\ Used("R")
    /\ UNCHANGED <<rcvframe, table, tlock, stack, loc>>

\* a start of the RUNNING branch's critical section that does not wait for
\* the lock to be free
Rcv58NoWait ==
    /\ Runs("R") /\ pc["R"] = "rcv58"
    /\ tlock' = "R"
    /\ IF packet # NoPacket
       THEN CallTo("R", "now72", "rcv61")
       ELSE CallTo("R", "now72", "rcv64")
    /\ UNCHANGED <<rcvframe, table, state, ret, loc, packet, lost_resets>>

\* lines 58-64: tlock.acquire(), then the clock.now() of register (with a
\* packet) or of do_expirations (without)
Rcv58 ==
    /\ Runs("R") /\ pc["R"] = "rcv58"
    /\ tlock = "free"
    /\ tlock' = "R"
    /\ IF packet # NoPacket
       THEN CallTo("R", "now72", "rcv61")
       ELSE CallTo("R", "now72", "rcv64")
    /\ UNCHANGED <<rcvframe, table, state, ret, loc, packet, lost_resets>>

\* a RUNNING branch that also hands the host of a registered NVR packet to
\* the clock as its server
Rcv61Rebinds ==
    /\ Runs("R") /\ pc["R"] = "rcv61"
    /\ IF ret["R"] = RetUnsync
       THEN Crash(Unsync)
       ELSE /\ table' = Register(table, packet, ret["R"].n)
            /\ server' = IF packet.kind = "nvr" THEN packet.host ELSE server
            /\ CallTo("R", "now72", "rcv64")
            /\ Used("R")
            /\ UNCHANGED <<now, last_refresh, offset_buffer, crashed, call,
                           state, tlock, loc, packet, lost_resets>>

\* line 61: inventory.register(packet), then the clock.now() of line 64
Rcv61 ==
    /\ Runs("R") /\ pc["R"] = "rcv61"
    /\ IF ret["R"] = RetUnsync
       THEN Crash(Unsync)
       ELSE /\ table' = Register(table, packet, ret["R"].n)
            /\ CallTo("R", "now72", "rcv64")
            /\ Used("R")
            /\ UNCHANGED <<rcvframe, state, tlock, loc, packet, lost_resets>>

\* line 64: inventory.do_expirations(max_age)
Rcv64 ==
    /\ Runs("R") /\ pc["R"] = "rcv64"
    /\ IF ret["R"] = RetUnsync
       THEN Crash(Unsync)
       ELSE /\ table' = DoExpirations(table, MAX_AGE, ret["R"].n)
            /\ Goto("R", "rcv66")
            /\ Used("R")
            /\ UNCHANGED <<rcvframe, state, tlock, stack, loc, packet,
                           lost_resets>>

\* an end of the RUNNING branch that goes on without tlock.release()
Rcv66KeepsLock ==
    /\ Runs("R") /\ pc["R"] = "rcv66"
    /\ tlock' = tlock
    /\ NextDatagram
    /\ UNCHANGED <<rcvframe, table, state, stack, ret, loc, lost_resets>>

\* line 66: tlock.release()
Rcv66 ==
    /\ Runs("R") /\ pc["R"] = "rcv66"
    /\ tlock' = "free"
    /\ NextDatagram
    /\ UNCHANGED <<rcvframe, table, state, stack, ret, loc, lost_resets>>

\* line 69: tlock.acquire()
Rcv69 ==
    /\ Runs("R") /\ pc["R"] = "rcv69"
    /\ tlock = "free"
    /\ tlock' = "R"
    /\ Goto("R", "rcv70")
    /\ UNCHANGED <<rcvframe, table, state, stack, ret, loc, packet,
                   lost_resets>>

\* a CLOCK_LOST branch whose inventory.reset() leaves the table as it is
Rcv70KeepsTable ==
    /\ Runs("R") /\ pc["R"] = "rcv70"
    /\ table' = table
    /\ lost_resets' = lost_resets + 1
    /\ Goto("R", "rcv71")
    /\ UNCHANGED <<rcvframe, state, tlock, stack, ret, loc, packet>>

\* line 70: inventory.reset()
Rcv70 ==
    /\ Runs("R") /\ pc["R"] = "rcv70"
    /\ table' = EmptyTable
    /\ lost_resets' = lost_resets + 1
    /\ Goto("R", "rcv71")
    /\ UNCHANGED <<rcvframe, state, tlock, stack, ret, loc, packet>>

\* line 71: tlock.release()
Rcv71 ==
    /\ Runs("R") /\ pc["R"] = "rcv71"
    /\ tlock' = "free"
    /\ Goto("R", "rcv73")
    /\ UNCHANGED <<rcvframe, table, state, stack, ret, loc, packet,
                   lost_resets>>

\* line 73: state = STATE.UNINITIALIZED
Rcv73 ==
    /\ Runs("R") /\ pc["R"] = "rcv73"
    /\ state' = "UNINITIALIZED"
    /\ lost_resets' = 0
    /\ NextDatagram
    /\ UNCHANGED <<rcvframe, table, tlock, stack, ret, loc>>

ReceiveStep ==
    \/ Recv41 \/ Match46 \/ Rcv50 \/ Rcv55 \/ Rcv58 \/ Rcv61 \/ Rcv64
    \/ Rcv66 \/ Rcv69 \/ Rcv70 \/ Rcv71 \/ Rcv73

(* ------------------------ __main__ consumer loop ---------------------- *)
mainframe == <<now, clockvars, table, state, packet, crashed, lost_resets,
               call>>

\* line 105: now = clock.now()
Main105 ==
    /\ Runs("M") /\ pc["M"] = "main105"
    /\ CallTo("M", "now72", "main106")
    /\ UNCHANGED <<mainframe, tlock, ret, loc>>

\* lines 106-138: on UnsynchronizedException try again; otherwise either
\* the next run is still ahead (clock.sleep(1), line 122) or it is due
Main106 ==
    /\ Runs("M") /\ pc["M"] = "main106"
    /\ IF ret["M"] = RetUnsync
       THEN Goto("M", "main105") /\ UNCHANGED <<stack, loc>>
       ELSE \/ /\ CallTo("M", "sleep90", "main123")
               /\ loc' = [loc EXCEPT !["M"].delay = SLEEP_DELAY]
            \/ Goto("M", "main138") /\ UNCHANGED <<stack, loc>>
    /\ Used("M")
    /\ UNCHANGED <<mainframe, tlock>>

\* line 123: continue, unless clock.sleep let an exception through
Main123 ==
    /\ Runs("M") /\ pc["M"] = "main123"
    /\ IF ret["M"] = RetUnsync
       THEN Crash(Unsync)
       ELSE IF ret["M"] = RetValueError
       THEN Crash("ValueError")
       ELSE /\ Goto("M", "main105")
            /\ UNCHANGED <<mainframe, tlock, stack, ret, loc>>

\* line 138: tlock.acquire()
Main138 ==
    /\ Runs("M") /\ pc["M"] = "main138"
    /\ tlock = "free"
    /\ tlock' = "M"
    /\ Goto("M", "main140")
    /\ UNCHANGED <<mainframe, stack, ret, loc>>

\* Inventory.all_cameras: hosts whose packet is a CameraPacket
AllCameras(tbl) == {h \in Hosts : tbl[h].kind = "camera"}

\* lines 140-176: the loop over inventory.all_cameras(); only
\* DahuaClientException of build_client is caught (line 146), so an error
\* of a request to a camera (get_camera_profile, set_camera_profile,
\* get_schedule, set_schedule) leaves the loop and ends the main thread
Main140 ==
    /\ Runs("M") /\ pc["M"] = "main140"
    /\ \/ /\ Goto("M", "main177")
          /\ UNCHANGED <<mainframe, tlock, stack, ret, loc>>
       \/ /\ AllCameras(table) # {}
          /\ Crash("RequestException")

\* line 177: tlock.release()
Main177 ==
    /\ Runs("M") /\ pc["M"] = "main177"
    /\ tlock' = "free"
    /\ Goto("M", "main105")
    /\ UNCHANGED <<mainframe, stack, ret, loc>>

MainStep ==
    \/ Main105 \/ Main106 \/ Main123 \/ Main138 \/ Main140 \/ Main177

(* ------------------------------- time -------------------------------- *)
\* t is in a call that takes time: sock.recvfrom, the SNTP exchange (at
\* most SERVER_TIMEOUT), time.sleep, acquire() of a held lock, the HTTP
\* requests to the cameras; or it is spinning in the consumer's retry loop;
\* or it is overtaken between lines 90 and 94 of sleep
Blocked(t) ==
    \/ pc[t] \in {"off", "d_idle", "recv41", "main105", "main140", "sleep91",
                  "sleep92", "sleep98"}
    \/ pc[t] = "sync63" /\ now + 1 - loc[t].lnow <= SERVER_TIMEOUT
    \/ pc[t] \in {"rcv58", "rcv69", "main138"} /\ tlock # "free"

\* the local clock advances by a second; the statements between two calls
\* that take time run within one reading of the clock
Tick ==
    /\ Alive /\ now < MaxTime
    /\ \A t \in Threads : Blocked(t)
    /\ now' = now + 1
    /\ UNCHANGED <<clockvars, table, state, tlock, pc, stack, ret, loc,
                   packet, crashed, lost_resets, call>>

(* --------------------------- the program ----------------------------- *)
NoCall == [op |-> "none", arg |-> None, attempts |-> 0, sample |-> Absent,
           server |-> None, last_refresh |-> NTP_EPOCH,
           offset_buffer |-> <<>>, now |-> 0, streak |-> -1,
           resp |-> Timeout, delay |-> 0, path |-> "none", polls |-> 0,
           waits |-> 0, nplain |-> 0, plain |-> 0]

Init ==
    /\ now = 0
    /\ server = ResetServer(None)
    /\ last_refresh = ResetRefresh
    /\ offset_buffer = ResetBuffer
    /\ table = EmptyTable
    /\ state = "UNINITIALIZED"
    /\ tlock = "free"
    /\ pc = [t \in Threads |->
               IF t = "R" THEN "recv41" ELSE IF t = "M" THEN "main105" ELSE "off"]
    /\ stack = [t \in Threads |-> <<>>]
    /\ ret = [t \in Threads |-> RetNone]
    /\ loc = [t \in Threads |-> NoLoc]
    /\ packet = NoPacket
    /\ crashed = "none"
    /\ lost_resets = 0
    /\ call = NoCall

Next ==
    \/ \E t \in {"R", "M"} : ClockStep(t)
    \/ ReceiveStep
    \/ MainStep
    \/ Tick

Spec == Init /\ [][Next]_vars

(* ------------------- the Clock class under one caller ----------------- *)
\* the delays the caller passes to sleep()
SleepDelays == {1, 2}

\* the caller starts a call of method op at label entry; d is the delay
\* handed to sleep, 0 for the other methods
InvokeWith(op, arg, d, entry) ==
    /\ Runs("D") /\ pc["D"] = "d_idle"
    /\ CallTo("D", entry, "d_done")
    /\ call' = [NoCall EXCEPT !.op = op, !.arg = arg, !.server = server,
                              !.last_refresh = last_refresh,
                              !.offset_buffer = offset_buffer, !.now = now,
                              !.streak = call.streak, !.delay = d]
    /\ UNCHANGED <<now, clockvars, ret, progvars, crashed>>

Invoke(op, arg, entry) == InvokeWith(op, arg, 0, entry)

CallSync == Invoke("sync", None, "sync49") /\ UNCHANGED loc

CallIsValid == Invoke("is_valid", None, "valid67") /\ UNCHANGED loc

CallNow == Invoke("now", None, "now72") /\ UNCHANGED loc

CallBind ==
    \E h \in Hosts :
        /\ Invoke("use_ntp_server", h, "bind38")
        /\ loc' = [loc EXCEPT !["D"].arg = h]

CallSleep ==
    \E d \in SleepDelays :
        /\ InvokeWith("sleep", None, d, "sleep90")
        /\ loc' = [loc EXCEPT !["D"].delay = d]

\* the call has returned (ret["D"] is its result); the caller goes on
CallDone ==
    /\ Runs("D") /\ pc["D"] = "d_done"
    /\ Goto("D", "d_idle")
    /\ Used("D")
    /\ call' = [NoCall EXCEPT !.streak = call.streak]
    /\ UNCHANGED <<now, clockvars, stack, loc, progvars, crashed>>

\* a clock as the constructor leaves it, or one bound to a server whose
\* buffer holds what earlier exchanges pushed, refreshed at this second
InitClock ==
    /\ now = 0
    /\ \/ /\ server = ResetServer(None)
          /\ last_refresh = ResetRefresh
          /\ offset_buffer = ResetBuffer
       \/ /\ server \in Hosts
          /\ last_refresh = 0
          /\ offset_buffer \in [1..OFFSET_BUFFER_SIZE -> Samples]
    /\ table = EmptyTable
    /\ state = "UNINITIALIZED"
    /\ tlock = "free"
    /\ pc = [t \in Threads |-> IF t = "D" THEN "d_idle" ELSE "off"]
    /\ stack = [t \in Threads |-> <<>>]
    /\ ret = [t \in Threads |-> RetNone]
    /\ loc = [t \in Threads |-> NoLoc]
    /\ packet = NoPacket
    /\ crashed = "none"
    /\ lost_resets = 0
    /\ call = [NoCall EXCEPT !.streak =
                  IF \A i \in 1..Len(offset_buffer) : offset_buffer[i].present
                  THEN 0 ELSE -1]

NextClock ==
    \/ CallSync \/ CallIsValid \/ CallNow \/ CallBind \/ CallSleep
    \/ CallDone
    \/ ClockStep("D")
    \/ Tick

SpecClock == InitClock /\ [][NextClock]_vars

(* ------------------- the Inventory under one caller ------------------- *)
Kinds == {"nvr", "camera"}
Stamps == 0..MaxStamp
\* the tables register and do_expirations can be applied to
Entries == {NoEntry} \cup [ts : Stamps, kind : Kinds]
Tables == [Hosts -> Entries]

\* history of SpecInventory's caller: the method, its arguments, and the
\* table it was applied to
NoInvCall == [op |-> "none", host |-> None, kind |-> "absent", ts |-> 0,
              max_age |-> 0, table |-> EmptyTable]

invframe == <<now, clockvars, state, tlock, pc, stack, ret, loc, packet,
              crashed, lost_resets>>

\* inventory.register(packet), with ts the clock.now() it reads
InvRegister ==
    /\ call.op = "none"
    /\ \E h \in Hosts, k \in Kinds, ts \in Stamps :
          /\ table' = Register(table, [host |-> h, kind |-> k], ts)
          /\ call' = [op |-> "register", host |-> h, kind |-> k, ts |-> ts,
                      max_age |-> 0, table |-> table]
    /\ UNCHANGED invframe

\* inventory.do_expirations(max_age), with ts the clock.now() it reads
InvExpire ==
    /\ call.op = "none"
    /\ \E a \in Stamps, ts \in Stamps :
          /\ table' = DoExpirations(table, a, ts)
          /\ call' = [op |-> "do_expirations", host |-> None,
                      kind |-> "absent", ts |-> ts, max_age |-> a,
                      table |-> table]
    /\ UNCHANGED invframe

InvDone ==
    /\ call.op # "none"
    /\ call' = NoInvCall
    /\ UNCHANGED <<table, invframe>>

InitInventory ==
    /\ now = 0
    /\ server = ResetServer(None)
    /\ last_refresh = ResetRefresh
    /\ offset_buffer = ResetBuffer
    /\ table \in Tables
    /\ state = "UNINITIALIZED"
    /\ tlock = "free"
    /\ pc = [t \in Threads |-> "off"]
    /\ stack = [t \in Threads |-> <<>>]
    /\ ret = [t \in Threads |-> RetNone]
    /\ loc = [t \in Threads |-> NoLoc]
    /\ packet = NoPacket
    /\ crashed = "none"
    /\ lost_resets = 0
    /\ call = NoInvCall

NextInventory == InvRegister \/ InvExpire \/ InvDone

SpecInventory == InitInventory /\ [][NextInventory]_vars

(* -------------------- sntp.server_offset on its own ------------------- *)
\* NTP timestamps, as _to_ts gives them: whole multiples of 1/MAX32 second
TsValues == 0..MaxTs

\* the 48 bytes struct.unpack('!2B22x3Q') reads: leap and mode from the
\* first byte, stratum, and the origin, receive and transmit timestamps
Packet48(l, m, s, origin, rx, tx) ==
    [kind |-> "reply", leap |-> l, mode |-> m, stratum |-> s,
     origin |-> origin, rx |-> rx, tx |-> tx]
NoPacket48 == [kind |-> "timeout", leap |-> 0, mode |-> 0, stratum |-> 0,
               origin |-> 0, rx |-> 0, tx |-> 0]

\* a quotient of integers, for the floats of lines 80-83
Ratio(n, d) == [num |-> n, den |-> d]
SameRatio(a, b) == a.num * b.den = b.num * a.den

\* lines 80-83 with the halves of the arrival time and of the transmit
\* timestamp added where they are subtracted
OffsetDelaySum(r, finish) ==
    [tag |-> "tuple",
     offset |-> Ratio((r.rx - r.origin) + (finish - r.tx), 2 * MAX32),
     delay |-> Ratio((finish - r.origin) - (r.tx - r.rx), MAX32)]

\* lines 80-83: offset = ((rx_ts - start_ts) - (finish_ts - tx_ts)) / 2,
\* delay = (finish_ts - start_ts) - (tx_ts - rx_ts), each / MAX32
OffsetDelay(r, finish) ==
    [tag |-> "tuple",
     offset |-> Ratio((r.rx - r.origin) - (finish - r.tx), 2 * MAX32),
     delay |-> Ratio((finish - r.origin) - (r.tx - r.rx), MAX32)]

\* server_offset, lines 66-83, for the response r that arrives at finish
ServerOffsetAt(r, finish) ==
    IF r.kind = "timeout"
    THEN [tag |-> "raise", offset |-> Ratio(0, 1), delay |-> Ratio(0, 1)]
    ELSE IF ~ResponseOk(r)
    THEN [tag |-> "none", offset |-> Ratio(0, 1), delay |-> Ratio(0, 1)]
    ELSE OffsetDelay(r, finish)

\* history of SpecSntp's caller: the timestamp sent in the request, the
\* response, the local time of its arrival, and what server_offset gave
NoExchange == [op |-> "none", sent |-> 0, resp |-> NoPacket48, finish |-> 0,
               result |-> ServerOffsetAt(NoPacket48, 0)]

sntpframe == <<now, clockvars, table, state, tlock, pc, stack, ret, loc,
               packet, crashed, lost_resets>>

\* lines 61-65: the request carries _to_ts(local_now()) in its last 8 bytes
SntpSend ==
    /\ call.op = "none"
    /\ \E t1 \in TsValues : call' = [NoExchange EXCEPT !.op = "sent",
                                                       !.sent = t1]
    /\ UNCHANGED sntpframe

\* lines 66-83: a response arrives at finish; its origin field is whatever
\* the sender wrote there, the request's timestamp when the sender follows
\* the protocol
SntpReply ==
    /\ call.op = "sent"
    /\ \E origin \in {call.sent, 0, MaxTs}, rx \in TsValues,
          tx \in TsValues, finish \in TsValues, s \in {1, 16} :
          LET r == Packet48(0, 4, s, origin, rx, tx) IN
          call' = [call EXCEPT !.op = "done", !.resp = r, !.finish = finish,
                               !.result = ServerOffsetAt(r, finish)]
    /\ UNCHANGED sntpframe

\* line 66: recvfrom raises when no response arrives in time
SntpTimeout ==
    /\ call.op = "sent"
    /\ call' = [call EXCEPT !.op = "done",
                            !.result = ServerOffsetAt(NoPacket48, 0)]
    /\ UNCHANGED sntpframe

SntpDone ==
    /\ call.op = "done"
    /\ call' = NoExchange
    /\ UNCHANGED sntpframe

InitSntp ==
    /\ now = 0
    /\ server = ResetServer(None)
    /\ last_refresh = ResetRefresh
    /\ offset_buffer = ResetBuffer
    /\ table = EmptyTable
    /\ state = "UNINITIALIZED"
    /\ tlock = "free"
    /\ pc = [t \in Threads |-> "off"]
    /\ stack = [t \in Threads |-> <<>>]
    /\ ret = [t \in Threads |-> RetNone]
    /\ loc = [t \in Threads |-> NoLoc]
    /\ packet = NoPacket
    /\ crashed = "none"
    /\ lost_resets = 0
    /\ call = NoExchange

NextSntp == SntpSend \/ SntpReply \/ SntpTimeout \/ SntpDone

SpecSntp == InitSntp /\ [][NextSntp]_vars

----------------------------------------------------------------------------
\* Properties of the receive loop and of the two threads (Spec)

Done(op) == pc["D"] = "d_done" /\ call.op = op

\* C1: in UNINITIALIZED, an NVR packet from a host makes the loop bind the
\* clock to that host, and the state becomes RUNNING if and only if the bind
\* reported success and the clock holds an offset afterwards; otherwise the
\* state stays UNINITIALIZED.
C1_RunningIffBound ==
    [][pc["R"] = "rcv50" /\ pc'["R"] # "rcv50"
         => /\ state = "UNINITIALIZED"
            /\ state' = IF /\ ret["R"] = RetBool(TRUE)
                           /\ PresentIdx(offset_buffer) # {}
                        THEN "RUNNING" ELSE "UNINITIALIZED"]_vars

\* C2: a datagram whose first byte is neither 0xA3 nor 0xB3 ends the handling
\* of that datagram only: the exception of the decoding never ends the
\* receive thread or the process.
C2_BadMagicNotFatal == crashed # "Exception"

\* C3: the validity test and the inventory's change it guards are atomic:
\* while the receive loop holds the lock to register or to expire, the
\* clock's now() never answers with UnsynchronizedException.
C3_NoUnsyncInCriticalSection ==
    ~(/\ tlock = "R"
      /\ pc["R"] \in {"rcv61", "rcv64"}
      /\ ret["R"] = RetUnsync)

\* C4: the offset buffer holds exactly OFFSET_BUFFER_SIZE entries whenever no
\* sync() is between its pop and its insert, whatever the threads do.
C4_BufferLength ==
    (\A t \in Threads : pc[t] # "sync64")
        => Len(offset_buffer) = OFFSET_BUFFER_SIZE

\* C5: the step from RUNNING to CLOCK_LOST leaves the inventory as it is; the
\* inventory is reset exactly once, and is empty, when the state goes from
\* CLOCK_LOST to UNINITIALIZED; no step of the loop resets it in another
\* state, and in RUNNING it changes only under the lock.
C5_ResetOnlyOnClockLost ==
    [][/\ (state = "RUNNING" /\ state' = "CLOCK_LOST" => table' = table)
       /\ (state = "CLOCK_LOST" /\ state' = "UNINITIALIZED"
              => lost_resets = 1 /\ table = EmptyTable)
       /\ (lost_resets' > lost_resets
              => state = "CLOCK_LOST" /\ table' = EmptyTable)
       /\ (table' # table
              => \/ state = "CLOCK_LOST" /\ lost_resets' = lost_resets + 1
                 \/ state = "RUNNING" /\ tlock = "R")]_vars

\* the clock was lost with a camera registered, and the reset is next
C5_Witness ==
    /\ state = "CLOCK_LOST"
    /\ pc["R"] = "rcv70"
    /\ table # EmptyTable

\* C17: in RUNNING, once is_valid() has answered True, the loop registers a
\* received packet (of either kind) and then expires, and on a timeout only
\* expires; the step leaves the state RUNNING with the lock released, and
\* after the expiry no entry is older than MAX_AGE.
C17_RunningStep ==
    [][/\ pc["R"] = "rcv61"
          => /\ crashed' = "none"
             /\ packet # NoPacket /\ ret["R"].tag = "time"
             /\ table'[packet.host] =
                   [ts |-> ret["R"].n, kind |-> packet.kind]
             /\ pc'["R"] = "now72" /\ stack'["R"] = <<"rcv64">>
       /\ pc["R"] = "rcv64"
          => /\ crashed' = "none"
             /\ ret["R"].tag = "time"
             /\ \A h \in Hosts :
                   /\ table'[h] \in {table[h], NoEntry}
                   /\ table'[h] # NoEntry
                        => ret["R"].n - table'[h].ts <= MAX_AGE
             /\ pc'["R"] = "rcv66"
       /\ pc["R"] = "rcv66"
          => state' = "RUNNING" /\ tlock' = "free" /\ pc'["R"] = "recv41"
      ]_vars

\* C18: in UNINITIALIZED, a timeout or a packet that is not an NVRPacket
\* causes nothing: the state stays UNINITIALIZED, the clock's server,
\* last_refresh and buffer and the inventory's table are as they were, and
\* the loop goes on to the next recvfrom.
C18_UninitializedIgnores ==
    [][/\ pc["R"] = "match46"
       /\ state = "UNINITIALIZED"
       /\ packet.kind # "nvr"
       => /\ state' = "UNINITIALIZED"
          /\ clockvars' = clockvars
          /\ table' = table
          /\ crashed' = crashed
          /\ pc'["R"] = "recv41"]_vars

\* a camera's packet met the UNINITIALIZED loop while the clock still had a
\* server from before the clock was lost
C18_Witness ==
    /\ pc["R"] = "match46"
    /\ state = "UNINITIALIZED"
    /\ packet.kind = "camera"
    /\ server # None

\* C19: Packet.discern gives an NVRPacket for every payload of one byte or
\* more that starts with 0xA3 and a CameraPacket for every one that starts
\* with 0xB3; the unknown first byte is its only failure: a payload shorter
\* than the fields of its class, or text that is not UTF-8, does not make
\* it fail.
C19_OnlyMagicFails == crashed \notin {"struct.error", "UnicodeDecodeError"}

\* C20: the lock is released on every way out of the sections of both
\* threads, also when a statement inside fails: no thread is past its
\* section, and the process has not been ended by an exception, while the
\* lock is still held.
C20_LockReleasedOnEveryExit ==
    /\ crashed = Unsync /\ pc["R"] \in {"rcv61", "rcv64"} => tlock # "R"
    /\ crashed = "RequestException" => tlock # "M"
    /\ tlock = "R" => pc["R"] \notin {"recv41", "match46"}
    /\ tlock = "M" => pc["M"] \in {"main140", "main177"}

\* the consumer is inside the clock.sleep(1) of line 122
InSleep(t) ==
    \/ pc[t] \in {"sleep90", "sleep91", "sleep92", "sleep94", "sleep97",
                  "sleep98"}
    \/ \E i \in 1..Len(stack[t]) : stack[t][i] = "main123"

\* C21: neither thread holds the lock while it waits in sock.recvfrom or
\* in clock.sleep: when the receive loop is at its recvfrom it does not own
\* the lock, and when the consumer is in clock.sleep it does not own it.
C21_NoLockWhileBlocked ==
    /\ pc["R"] = "recv41" => tlock # "R"
    /\ InSleep("M") => tlock # "M"

\* the receive loop is back at recvfrom after a RUNNING step that kept a
\* packet in the inventory, while the consumer waits inside clock.sleep
C21_Witness ==
    /\ pc["R"] = "recv41"
    /\ state = "RUNNING"
    /\ table # EmptyTable
    /\ pc["M"] = "sleep98"
    /\ tlock = "free"

\* C23: when the main thread has acquired the lock and starts the loop over
\* inventory.all_cameras(), the clock holds at least one present sample.
C23_SnapshotWhileValid ==
    [][pc["M"] = "main138" /\ pc'["M"] = "main140"
           => PresentIdx(offset_buffer') # {}]_vars

\* C24: while the state is CLOCK_LOST the receive loop receives no datagram:
\* between the assignment of CLOCK_LOST and the reset of the inventory no
\* packet is taken from the socket, so none is dropped.
C24_ClockLostLeftAtOnce ==
    [][state = "CLOCK_LOST" => packet' = NoPacket]_vars

\* the statements of the main thread between tlock.acquire() and
\* tlock.release(): the loop over inventory.all_cameras()
Iterating == pc["M"] \in {"main140", "main177"}

\* C27: while the main thread iterates over the inventory's cameras the
\* table is not changed, and the receive thread is at none of its statements
\* that register, expire or reset.
C27_IterationExcludesMutation ==
    [][Iterating =>
          /\ table' = table
          /\ pc["R"] \notin {"rcv61", "rcv64", "rcv70"}
          /\ \A i \in 1..Len(stack["R"]) :
                stack["R"][i] \notin {"rcv61", "rcv64"}]_vars

\* the receive loop holds a packet to register and waits for the lock while
\* the main thread iterates over a table that holds a camera
C27_Witness ==
    /\ pc["M"] = "main140" /\ tlock = "M"
    /\ AllCameras(table) # {}
    /\ pc["R"] = "rcv58" /\ packet # NoPacket

\* C28: whenever the state is UNINITIALIZED the inventory holds no entry.
C28_UninitializedIsEmpty ==
    state = "UNINITIALIZED" => table = EmptyTable

\* UNINITIALIZED entered again: the clock had been bound and refreshed, was
\* lost, and the receive loop is back at recvfrom after the CLOCK_LOST branch
C28_Witness ==
    /\ state = "UNINITIALIZED"
    /\ pc["R"] = "recv41"
    /\ last_refresh > 0
    /\ offset_buffer = EmptyBuffer
    /\ table = EmptyTable

\* C29: while the state is RUNNING or CLOCK_LOST no step changes the clock's
\* server or puts last_refresh back to the value reset() gives it, whatever
\* packet the loop has received, an NVR packet of another host included.
C29_BindOnlyWhenUninitialized ==
    [][(state = "RUNNING" \/ state = "CLOCK_LOST") =>
          /\ server' = server
          /\ (last_refresh' # last_refresh
                 => last_refresh' # ResetRefresh)]_vars

\* in RUNNING the loop has registered the NVR packet of a host that is not
\* the clock's server, and the server is still the one bound before
C29_Witness ==
    /\ state = "RUNNING"
    /\ pc["R"] = "rcv66"
    /\ packet.kind = "nvr"
    /\ server \in Hosts /\ packet.host # server
    /\ table[packet.host].kind = "nvr"

\* C30: whenever the clock's server is None, no slot of offset_buffer holds
\* an offset.
C30_NoSourceNoSample ==
    server = None => PresentIdx(offset_buffer) = {}

\* C32: the process has no last state: whatever the datagrams received, as
\* long as receiving them raises nothing but the exceptions of their
\* decoding, neither thread is ended by an exception, so the receive loop
\* can always go on to UNINITIALIZED after a loss of the clock and to
\* RUNNING after a bind.
C32_NoTerminalState ==
    crashed \in {"none", "Exception", "struct.error", "UnicodeDecodeError"}

----------------------------------------------------------------------------
\* Properties of the clock's methods, one call at a time (SpecClock)

\* C6: from a buffer with no None, is_valid() is still True after each of the
\* first OFFSET_BUFFER_SIZE - 1 failed exchanges in a row and False only
\* after the OFFSET_BUFFER_SIZE-th, whatever the offsets are.
C6_ValidUntilNthFailure ==
    Done("is_valid") /\ call.streak >= 0
        => ret["D"] = RetBool(call.streak < OFFSET_BUFFER_SIZE)

\* C7: is_valid() is True exactly when the buffer, after the sync() it runs,
\* holds at least one offset that is not None, an offset of zero included.
C7_ValidIffPresent ==
    Done("is_valid") => ret["D"] = RetBool(PresentIdx(offset_buffer) # {})

\* C8: use_ntp_server(server) with a server other than the current one
\* resets the buffer and last_refresh and makes exactly one exchange; when
\* the exchange gives no offset the server is None, the buffer is all None
\* and False is returned; when it gives an offset the server is the one
\* given, the offset is the buffer's only one, and True is returned.
C8_BindOtherServer ==
    Done("use_ntp_server") /\ call.arg # call.server
        => /\ call.attempts = 1
           /\ IF call.sample.present
              THEN /\ server = call.arg
                   /\ offset_buffer = Insert0(Pop(EmptyBuffer), call.sample)
                   /\ last_refresh = call.now
                   /\ ret["D"] = RetBool(TRUE)
              ELSE /\ server = None
                   /\ offset_buffer = EmptyBuffer
                   /\ ret["D"] = RetBool(FALSE)

\* C9: sync() changes nothing and makes no exchange when no server is set or
\* when no more than MAX_SYNC_AGE seconds have passed since last_refresh.
C9_SyncNoOp ==
    /\ Done("sync")
    /\ \/ call.server = None
       \/ call.now - call.last_refresh <= MAX_SYNC_AGE
    => /\ call.attempts = 0
       /\ server = call.server
       /\ last_refresh = call.last_refresh
       /\ offset_buffer = call.offset_buffer

\* a sync() on a bound clock, exactly MAX_SYNC_AGE after the last refresh
C9_Witness ==
    /\ Done("sync")
    /\ call.server # None
    /\ call.now - call.last_refresh = MAX_SYNC_AGE
    /\ call.attempts = 0

\* C10: an exchange that sync() makes sets last_refresh to the local second
\* of the call and shifts the buffer by one: its result, None for a failure,
\* is the newest entry, the oldest entry is dropped, the others keep their
\* order.
C10_AttemptShifts ==
    /\ pc["D"] = "d_done"
    /\ call.op \in {"sync", "is_valid", "now"}
    /\ call.attempts > 0
    => /\ call.attempts = 1
       /\ last_refresh = call.now
       /\ offset_buffer =
            <<call.sample>> \o
                SubSeq(call.offset_buffer, 1, OFFSET_BUFFER_SIZE - 1)

\* a failed exchange pushed None in front of an offset that stays
C10_Witness ==
    /\ Done("sync")
    /\ call.attempts = 1
    /\ ~call.sample.present
    /\ call.offset_buffer[1].present
    /\ offset_buffer[2] = call.offset_buffer[1]

\* C11: a timeout, or a response that fails the validation (leap indicator
\* UNSYNCHRONIZED, a mode other than SERVER, a stratum outside 1..15,
\* transmit timestamp 0), never leaves sync(), is_valid(), now() or
\* use_ntp_server() as an error of the exchange: its only effect is None as
\* the newest entry of the buffer, and the response's offset is not stored.
C11_FailedExchangePushesNone ==
    /\ pc["D"] = "d_done"
    /\ call.op \in {"sync", "is_valid", "now", "use_ntp_server"}
    /\ call.attempts = 1
    /\ \/ call.resp.kind = "timeout"
       \/ call.resp.leap = 3
       \/ call.resp.mode # 4
       \/ call.resp.stratum \notin 1..15
       \/ call.resp.tx = 0
    => /\ crashed = "none"
       /\ call.sample = Absent
       /\ IF call.op = "use_ntp_server"
          THEN /\ offset_buffer = EmptyBuffer
               /\ ret["D"] = RetBool(FALSE)
          ELSE /\ offset_buffer = <<Absent>> \o
                     SubSeq(call.offset_buffer, 1, OFFSET_BUFFER_SIZE - 1)
               /\ ret["D"] \in {RetNone, RetBool(TRUE), RetBool(FALSE),
                                RetUnsync}
                             \cup {RetTime(x) : x \in -100..100}

\* a response at stratum 16 carrying an offset was met, and None was pushed
C11_Witness ==
    /\ Done("is_valid")
    /\ call.attempts = 1
    /\ call.resp.kind = "reply" /\ call.resp.stratum = 16
    /\ call.resp.off = 6
    /\ offset_buffer[1] = Absent
    /\ call.offset_buffer[1] = Some(6)

\* C12: now() never returns an instant before OWN_EPOCH: when the local
\* instant plus the mean of the offsets present precedes OWN_EPOCH, the
\* result is that value plus the smallest whole number of MAX32 spans that
\* brings it to or past OWN_EPOCH; otherwise the result is exactly that
\* value.
C12_NowNotBeforeEpoch ==
    Done("now") /\ ret["D"].tag = "time"
        => LET raw == now + Mean(offset_buffer) IN
           /\ ret["D"].n >= OWN_EPOCH
           /\ IF raw >= OWN_EPOCH
              THEN ret["D"].n = raw
              ELSE \E k \in 1..8 :
                      /\ ret["D"].n = raw + k * MAX32
                      /\ raw + (k - 1) * MAX32 < OWN_EPOCH

\* now() answered from a corrected time more than one span before OWN_EPOCH
C12_Witness ==
    /\ Done("now")
    /\ ret["D"].tag = "time"
    /\ now + Mean(offset_buffer) < OWN_EPOCH - MAX32

\* C13: now() raises UnsynchronizedException exactly when, after its sync(),
\* the buffer holds no offset that is not None; with at least one offset
\* present it returns an instant.
C13_UnsyncIffNoSample ==
    Done("now")
        => IF PresentIdx(offset_buffer) = {}
           THEN ret["D"] = RetUnsync
           ELSE ret["D"].tag = "time"

\* C14: sleep() never raises UnsynchronizedException to its caller: when the
\* clock is valid at the test of line 90 and stops being valid later in the
\* call, also between that test and the now() that computes the target,
\* the call ends through the plain time.sleep.
C14_SleepNeverRaises == Done("sleep") => ret["D"] # RetUnsync

\* C25: a sleep(delay) ends by returning to its caller. When is_valid() was
\* False at line 90 it made one time.sleep of the whole delay and never read
\* now(); when the clock stayed valid it read now() once more than it waited
\* SLEEP_RESOLUTION, the last reading being the one that ended the loop, and
\* at least that many resolutions have passed; when the clock was lost in the
\* loop it made one time.sleep(delay) besides.
C25_SleepRunsToCompletion ==
    Done("sleep") =>
        /\ ret["D"] = RetNone
        /\ call.path \in {"plain", "poll", "degraded"}
        /\ call.path = "plain" =>
              /\ call.nplain = 1 /\ call.plain = call.delay
              /\ call.polls = 0 /\ call.waits = 0
              /\ now - call.now >= call.delay
        /\ call.path = "poll" =>
              /\ call.nplain = 0
              /\ call.polls = call.waits + 1
              /\ now - call.now >= call.waits * SLEEP_RESOLUTION
        /\ call.path = "degraded" =>
              /\ call.nplain = 1
              /\ call.polls = call.waits
              /\ now - call.now >= call.waits * SLEEP_RESOLUTION + call.plain

\* C26: when the now() of line 97 raises after k waits of SLEEP_RESOLUTION,
\* the time.sleep of line 101 is asked for delay - k * SLEEP_RESOLUTION
\* seconds, and that length is not negative.
C26_RemainingNeverNegative ==
    call.op = "sleep" /\ call.path = "degraded" =>
        /\ call.plain = call.delay - call.waits * SLEEP_RESOLUTION
        /\ call.plain >= 0

\* C31: when use_ntp_server(server) returns True, offset_buffer holds at
\* least one offset at that moment, also when server is the clock's server
\* already.
C31_BoundMeansValid ==
    Done("use_ntp_server") /\ ret["D"] = RetBool(TRUE)
        => PresentIdx(offset_buffer) # {}

----------------------------------------------------------------------------
\* Properties of the inventory's methods (SpecInventory)

\* C15: do_expirations(max_age), reading the instant ts, removes exactly the
\* entries whose age ts - timestamp is greater than max_age and keeps every
\* other entry with its timestamp and packet, for every table and max_age;
\* an entry whose age equals max_age is kept.
C15_EvictsOlderOnly ==
    call.op = "do_expirations"
        => \A h \in Hosts :
              IF /\ call.table[h] # NoEntry
                 /\ call.ts - call.table[h].ts > call.max_age
              THEN table[h] = NoEntry
              ELSE table[h] = call.table[h]

\* one entry exactly max_age old was kept, an older one was removed
C15_Witness ==
    /\ call.op = "do_expirations"
    /\ \E h, g \in Hosts :
          /\ call.table[h] # NoEntry /\ call.table[g] # NoEntry
          /\ call.ts - call.table[h].ts = call.max_age
          /\ table[h] = call.table[h]
          /\ call.ts - call.table[g].ts = call.max_age + 1
          /\ table[g] = NoEntry

\* C16: register(packet), reading the instant ts, leaves exactly one entry
\* for the packet's host, equal to (ts, packet), whatever entry the host had
\* (also one of the other kind or with a later timestamp), and leaves the
\* entries of all other hosts as they were.
C16_RegisterUpserts ==
    call.op = "register"
        => /\ table[call.host] = [ts |-> call.ts, kind |-> call.kind]
           /\ \A h \in Hosts \ {call.host} : table[h] = call.table[h]

\* an entry of the other kind with a later timestamp was replaced while
\* another host had an entry
C16_Witness ==
    /\ call.op = "register"
    /\ call.table[call.host] # NoEntry
    /\ call.table[call.host].kind # call.kind
    /\ call.table[call.host].ts > call.ts
    /\ table[call.host] = [ts |-> call.ts, kind |-> call.kind]
    /\ \E h \in Hosts \ {call.host} : table[h] # NoEntry

----------------------------------------------------------------------------
\* Properties of sntp.server_offset (SpecSntp)

\* C22: for a response that passes the validation, server_offset gives
\* offset = ((receive - origin) - (arrival - transmit)) / 2 and
\* delay = (arrival - origin) - (transmit - receive), both divided by MAX32
\* to give seconds, where origin is the origin timestamp of the response,
\* which in the response to a request is the timestamp the client sent in
\* that request.
C22_OffsetAndDelay ==
    /\ call.op = "done"
    /\ call.resp.kind = "reply"
    /\ call.resp.leap # 3 /\ call.resp.mode = 4
    /\ call.resp.stratum \in 1..15 /\ call.resp.tx # 0
    => /\ call.result.tag = "tuple"
       /\ 2 * MAX32 * call.result.offset.num =
             call.result.offset.den *
               ((call.resp.rx - call.resp.origin)
                  - (call.finish - call.resp.tx))
       /\ MAX32 * call.result.delay.num =
             call.result.delay.den *
               ((call.finish - call.resp.origin)
                  - (call.resp.tx - call.resp.rx))
       /\ call.resp.origin = call.sent =>
            /\ 2 * MAX32 * call.result.offset.num =
                 call.result.offset.den *
                   ((call.resp.rx - call.sent)
                      - (call.finish - call.resp.tx))
            /\ MAX32 * call.result.delay.num =
                 call.result.delay.den *
                   ((call.finish - call.sent)
                      - (call.resp.tx - call.resp.rx))

\* the example with 1/MAX32 second as the unit: origin 0, receive 5,
\* transmit 6, arrival 2 give offset 9/2 and delay 1 of that unit
C22_Witness ==
    /\ call.op = "done"
    /\ call.sent = 0 /\ call.resp.origin = 0
    /\ call.resp.rx = 5 /\ call.resp.tx = 6
    /\ call.finish = 2
    /\ call.resp.stratum = 1
    /\ SameRatio(call.result.offset, Ratio(9, 2 * MAX32))
    /\ SameRatio(call.result.delay, Ratio(1, MAX32))

====
